---- MODULE Spec2Model ----
(***************************************************************************)
(* The party-planner REST backend (express + mongoose): users, projects,   *)
(* embedded guest lists and read-only catalog collections.  A request is   *)
(* handled in a slot; every `await` on the document store is one atomic    *)
(* step, so two requests interleave exactly where the code can suspend.    *)
(* The step that reaches the first `await` also draws the request's        *)
(* inputs, the step after the last `await` also sends the response: it is  *)
(* put in `sent`, which the socket drains before the next store step.      *)
(* The React Native client is modelled by its own state: the redux store   *)
(* (ui.loading, user credentials), the SingleProjectPage component and the *)
(* fetches it has in flight; the server's answers are its inputs.          *)
(***************************************************************************)
EXTENDS Integers, Sequences, FiniteSets, TLC

\* ------------------------------------------------------------------ bounds
MaxUsers == 2       \* accounts ever created
MaxProjects == 2    \* projects ever created
MaxGuests == 1      \* guests ever appended
NumSlots == 2       \* requests in flight at the same time
NumSalts == 1       \* distinct salts bcrypt.genSaltSync() can return
MaxRequests == 3    \* fetches and button presses of the client

\* ------------------------------------------------------- program constants
MinPasswordLength == 8
NameMinLength == 5
NameMaxLength == 30

\* ------------------------------------------------------------- JS values
\* The JS value `undefined` (a body field or header that was not sent).
Undefined == "undefined"
\* A path segment that mongoose cannot cast to an ObjectId.
Malformed == "not-an-object-id"
\* Result of a findOne that matched nothing.
Null == [null |-> TRUE]

UserIdOf(n) == "u" \o ToString(n)
ProjectIdOf(n) == "p" \o ToString(n)
GuestIdOf(n) == "g" \o ToString(n)

Slots == 1..NumSlots
Salts == 1..NumSalts

\* ---------------------------------------------------------- request inputs
EmailInputs == {"a@b.com", "A@b.com", "c@d.com", ""}
PasswordInputs == {"abc", "password1", Undefined}
NameInputs == {"Birthday Bash", "abc", " abc ", Undefined}
DueDateInputs == {"2024-05-01", Undefined}
GuestNameInputs == {"Sam"}
PhoneInputs == {"5551234"}
UserIdInputs == {UserIdOf(n) : n \in 1..MaxUsers} \cup {Malformed}
ProjectIdInputs == {ProjectIdOf(n) : n \in 1..MaxProjects} \cup {Malformed}
GuestIdInputs == {GuestIdOf(n) : n \in 1..MaxGuests}
Collections == {"themes", "decorations", "drinks", "food", "activities"}
TypeInputs == {"kids", "grownup", "pirate"}
ThemeIdInputs == {"th1", "th9", Malformed}

\* String.prototype.toLowerCase on the e-mail inputs.
toLowerCase(s) == IF s = "A@b.com" THEN "a@b.com" ELSE s

\* The `trim: true` setter of a String path, on the name inputs; undefined
\* is not a string and is left alone.
trim(s) == IF s = " abc " THEN "abc" ELSE s

\* crypto.randomBytes(128).toString('hex'): 1024 random bits in hex.  The
\* n-th call is modelled as a value no earlier call returned (a collision
\* has probability 2^-1024).
randomBytesHex_constant(n) == "t0"
randomBytesHex(n) == "t" \o ToString(n)

TokenInputs == {randomBytesHex(n) : n \in 1..MaxUsers} \cup {Undefined}

\* bcrypt.hashSync(password, salt): the hash embeds the salt; the plaintext
\* is kept in the record only so that compareSync can be computed.
hashSync(password, salt) == [salt |-> salt, digest |-> <<salt, password>>]
\* bcrypt.compareSync(password, hash): re-hash with the hash's salt.
compareSync(password, hash) == hashSync(password, hash.salt) = hash
\* The password a stored hash was computed from.
PlainOf(hash) == hash.digest[2]

\* ------------------------------------------------------------------ state
VARIABLES
  strictQuery,   \* does this mongoose build drop filter keys not in the schema
  users,         \* the User collection
  projects,      \* the Project collection
  nextUser,      \* accounts created so far, plus one
  nextProject,   \* projects created so far, plus one
  nextGuest,     \* guests appended so far, plus one
  issued,        \* history: the id and accessToken of every account ever created
  slots,         \* the requests in flight
  sent,          \* the response res.json() has just written, with its request
  loading,       \* client: store.ui.loading
  credentials,   \* client: store.user (userId, accessToken, email)
  mounted,       \* client: is SingleProjectPage mounted ("no", "yes", "crashed")
  singleProject, \* client: the singleProject state of SingleProjectPage
  effectDue,     \* client: the page's effect runs after the current render
  pending,       \* client: the fetches in flight
  nextReq        \* client: fetches and button presses so far, plus one

vars == <<strictQuery, users, projects, nextUser, nextProject, nextGuest, issued,
          slots, sent, loading, credentials, mounted, singleProject, effectDue,
          pending, nextReq>>
store == <<users, projects, nextUser, nextProject, nextGuest, issued>>
server == <<strictQuery, store, slots, sent>>
client == <<loading, credentials, mounted, singleProject, effectDue, pending, nextReq>>

\* The Guest collection: no route saves a Guest document of its own.
guests == {}

\* The seeded catalog collections (_id, name and type tags of each item).
Catalog(coll) ==
  CASE coll = "themes" -> {[id |-> "th1", name |-> "Pirates", type |-> {"kids"}],
                           [id |-> "th2", name |-> "Casino", type |-> {"grownup"}]}
    [] coll = "decorations" ->
         {[id |-> "de1", name |-> "Balloons", type |-> {"kids", "grownup"}]}
    [] coll = "drinks" -> {[id |-> "dr1", name |-> "Lemonade", type |-> {"kids"}]}
    [] coll = "food" -> {[id |-> "fo1", name |-> "Cake", type |-> {"kids", "grownup"}]}
    [] OTHER -> {[id |-> "ac1", name |-> "Quiz", type |-> {"grownup"}]}

NoReq == [token |-> Undefined, userId |-> Undefined, projectId |-> Undefined,
          guestId |-> Undefined, email |-> Undefined, password |-> Undefined,
          name |-> Undefined, due_date |-> Undefined, guestName |-> Undefined,
          phone |-> Undefined, coll |-> Undefined, type |-> Undefined,
          id |-> Undefined]
\* History kept with a request: was its token the accessToken of a stored
\* user, and was its e-mail (in lower case) registered, when it arrived; was
\* the project of its path stored when the handler looked a project up.
NoHist == [tokenStored |-> FALSE, emailTaken |-> FALSE, projectStored |-> FALSE]
IdleSlot == [pc |-> "idle", op |-> "none", req |-> NoReq, hist |-> NoHist,
             error |-> "none"]
NoSent == [op |-> "none"]

\* res.status(s).json({...}): `success` is "absent" when the body has no such
\* field; `response`, `data` and `error` are Null when the body has none.
Json(status, success, response) ==
  [status |-> status, success |-> success, response |-> response, data |-> Null,
   error |-> Null]
JsonData(status, success, response, data) ==
  [status |-> status, success |-> success, response |-> response, data |-> data,
   error |-> Null]
JsonError(status, success, response, error) ==
  [status |-> status, success |-> success, response |-> response, data |-> Null,
   error |-> [err |-> error]]
Str(s) == [str |-> s]
Docs(d) == [docs |-> d]
Err(e) == [err |-> e]

\* A slot takes a new request when its last one was answered, or was left
\* without an answer for good.
Free(s) == sent = NoSent /\ slots[s].pc \in {"idle", "hung"}
At(s, op, pc) == sent = NoSent /\ slots[s].op = op /\ slots[s].pc = pc

\* The request of slot s is answered with resp.
Respond(s, op, req, hist, resp) ==
  /\ slots' = [slots EXCEPT ![s] = IdleSlot]
  /\ sent' = [op |-> op, slot |-> s, req |-> req, hist |-> hist,
              error |-> IF slots[s].pc = "catch" THEN slots[s].error ELSE "none",
              resp |-> resp]
  /\ UNCHANGED client
\* The request of slot s suspends on its next await.
Goto(s, pc, op, req, hist, error) ==
  /\ slots' = [slots EXCEPT ![s] = [pc |-> pc, op |-> op, req |-> req,
                                    hist |-> hist, error |-> error]]
  /\ sent' = NoSent
  /\ UNCHANGED client

\* The socket has taken the response.
flush ==
  /\ sent # NoSent
  /\ sent' = NoSent
  /\ UNCHANGED <<strictQuery, store, slots, client>>

\* Is `token` the accessToken of a stored user (the filter { accessToken }).
\* An undefined header matches only users without a token: there are none.
TokenStored(token) == token # Undefined /\ \E u \in users : u.accessToken = token

\* The documents of `coll` a filter matches whose only keys are no paths of
\* the schema: a build with strictQuery drops the keys (the filter is {}), a
\* build without it keeps them and no document has such a field.
FindByUnknownKey(coll) == IF strictQuery THEN coll ELSE {}

\* Can mongoose cast the value to an ObjectId.
IsObjectId(id) == id # Malformed /\ id # Undefined

\* The JS value `null` in the client's store.
JsNull == "null"
\* useState([]): the array the page starts with; every array has an identity.
InitialProject == [kind |-> "array", ref |-> 0]

\* The client when the app has started: nobody is signed in, the page is not
\* mounted, nothing is in flight.
ClientInit ==
  /\ loading = FALSE
  /\ credentials = [userId |-> JsNull, accessToken |-> JsNull, email |-> JsNull]
  /\ mounted = "no"
  /\ singleProject = InitialProject
  /\ effectDue = FALSE
  /\ pending = {}
  /\ nextReq = 1

Init ==
  /\ ClientInit
  /\ strictQuery \in BOOLEAN
  /\ users = {}
  /\ projects = {}
  /\ nextUser = 1
  /\ nextProject = 1
  /\ nextGuest = 1
  /\ issued = {}
  /\ slots = [s \in Slots |-> IdleSlot]
  /\ sent = NoSent

\* ------------------------------------------------------------- POST /signUp
\* The e-mail a sign-up stores.
SignUpEmail(email) == toLowerCase(email)

\* The password check of sign-up.
SignUpPasswordTooShort(password) == Len(password) < MinPasswordLength

\* What `new User({email, password}).save()` does: "ok", or the error thrown.
\* required rejects the empty string; the unique index rejects a stored e-mail.
SaveUserOutcome_noindex(email) ==
  IF email = "" THEN "ValidationError" ELSE "ok"
SaveUserOutcome(email) ==
  IF email = "" THEN "ValidationError"
  ELSE IF \E u \in users : u.email = email THEN "E11000"
  ELSE "ok"

\* The response of the catch block of sign-up.
SignUpCatchResponse(email, userExists, error) ==
  IF email = "" THEN JsonError(400, "false", Str("Please enter an email"), error)
  ELSE IF userExists THEN Json(400, "false", Str("User already exists"))
  ELSE IF error = "E11000"
    THEN JsonError(400, "false", Str("User already exists"), error)
  ELSE Json(400, "false", Err(error))

signUp(s) ==
  /\ Free(s)
  /\ \E email \in EmailInputs, password \in PasswordInputs, salt \in Salts :
       LET req == [NoReq EXCEPT !.email = email, !.password = password]
           hist == [NoHist EXCEPT !.emailTaken =
                      \E u \in users : u.email = toLowerCase(email)] IN
       IF password = Undefined
       THEN \* password.length throws a TypeError
            /\ Goto(s, "catch", "signUp", req, hist, "TypeError")
            /\ UNCHANGED <<users, nextUser, issued>>
       ELSE IF SignUpPasswordTooShort(password)
       THEN /\ Respond(s, "signUp", req, hist,
                       Json(400, "false", Str("Password must be minimum 8 characters")))
            /\ UNCHANGED <<users, nextUser, issued>>
       ELSE IF SaveUserOutcome(SignUpEmail(email)) # "ok"
       THEN /\ Goto(s, "catch", "signUp", req, hist, SaveUserOutcome(SignUpEmail(email)))
            /\ UNCHANGED <<users, nextUser, issued>>
       ELSE /\ nextUser <= MaxUsers
            /\ LET newUser == [id |-> UserIdOf(nextUser),
                               email |-> SignUpEmail(email),
                               password |-> hashSync(password, salt),
                               accessToken |-> randomBytesHex(nextUser)] IN
               /\ users' = users \cup {newUser}
               /\ issued' = issued \cup {[userId |-> newUser.id,
                                          accessToken |-> newUser.accessToken]}
               /\ Respond(s, "signUp", req, hist,
                          Json(201, "true",
                               [email |-> newUser.email,
                                accessToken |-> newUser.accessToken,
                                userId |-> newUser.id]))
            /\ nextUser' = nextUser + 1
  /\ UNCHANGED <<strictQuery, projects, nextProject, nextGuest>>

\* catch (error): `await User.findOne({ email })`, then the answer.
signUpCatch(s) ==
  /\ At(s, "signUp", "catch")
  /\ LET email == slots[s].req.email
         userExists == \E u \in users : u.email = email IN
     Respond(s, "signUp", slots[s].req, slots[s].hist,
             SignUpCatchResponse(email, userExists, slots[s].error))
  /\ UNCHANGED <<strictQuery, store>>

\* ------------------------------------------------------------- POST /signIn
\* The user `User.findOne({ email })` returns (e-mails are unique).
SignInLookup(email) ==
  IF \E u \in users : u.email = email
  THEN CHOOSE u \in users : u.email = email
  ELSE Null

\* The answer of sign-in for the user found (or Null) and the password sent.
SignInResponse(user, password) ==
  IF user = Null
  THEN Json(400, "false", Str("Credentials did not match"))
  ELSE IF password = Undefined
  THEN \* bcrypt.compareSync throws: data and hash arguments required
       JsonError(500, "false", Str("oops something went wrong"), "Error")
  ELSE IF compareSync(password, user.password)
  THEN Json(201, "true", [userId |-> user.id, email |-> user.email,
                          accessToken |-> user.accessToken])
  ELSE Json(400, "false", Str("Credentials did not match"))

signIn(s) ==
  /\ Free(s)
  /\ \E email \in EmailInputs, password \in PasswordInputs :
       Respond(s, "signIn", [NoReq EXCEPT !.email = email, !.password = password],
               NoHist, SignInResponse(SignInLookup(email), password))
  /\ UNCHANGED <<strictQuery, store>>

\* ------------------------------------------------------- authenticateUser
\* The routes registered with the authenticateUser middleware.
ProtectedRoutes == {"deleteUser", "changePassword", "getCatalog", "getCatalogByType",
                    "getThemeById", "getProjects", "getProjectBoard", "getSingleProject", "addProject", "addGuest",
                    "deleteGuest", "deleteProject"}
AccountRoutes == {"deleteUser", "changePassword"}

\* The path parameters and body fields each route reads.
RequestsOf(op) ==
  CASE op = "deleteUser" ->
         {[NoReq EXCEPT !.userId = u] : u \in UserIdInputs}
    [] op = "changePassword" ->
         {[NoReq EXCEPT !.userId = u, !.password = p] :
            u \in UserIdInputs, p \in PasswordInputs}
    [] op = "getCatalog" ->
         {[NoReq EXCEPT !.coll = c] : c \in Collections}
    [] op = "getCatalogByType" ->
         {[NoReq EXCEPT !.coll = c, !.type = t] : c \in Collections, t \in TypeInputs}
    [] op = "getThemeById" ->
         {[NoReq EXCEPT !.id = i] : i \in ThemeIdInputs}
    [] op = "getProjects" ->
         {[NoReq EXCEPT !.userId = u] : u \in UserIdInputs}
    [] op = "getProjectBoard" ->
         {[NoReq EXCEPT !.userId = u] : u \in UserIdInputs}
    [] op = "addProject" ->
         {[NoReq EXCEPT !.userId = u, !.name = n, !.due_date = d] :
            u \in UserIdInputs, n \in NameInputs, d \in DueDateInputs}
    [] op = "updateProject" ->
         {[NoReq EXCEPT !.userId = u, !.projectId = p, !.name = n, !.due_date = d] :
            u \in UserIdInputs, p \in ProjectIdInputs, n \in NameInputs,
            d \in DueDateInputs}
    [] op = "addGuest" ->
         {[NoReq EXCEPT !.userId = u, !.projectId = p, !.guestName = g, !.phone = ph] :
            u \in UserIdInputs, p \in ProjectIdInputs, g \in GuestNameInputs,
            ph \in PhoneInputs}
    [] op = "deleteGuest" ->
         {[NoReq EXCEPT !.userId = u, !.projectId = p, !.guestId = g] :
            u \in UserIdInputs, p \in ProjectIdInputs, g \in GuestIdInputs}
    [] OTHER -> \* getSingleProject, deleteProject
         {[NoReq EXCEPT !.userId = u, !.projectId = p] :
            u \in UserIdInputs, p \in ProjectIdInputs}

\* Does the middleware call next() for this Authorization header.
Authenticated(token) == TokenStored(token)

\* A request to one of `routes` arrives: `await User.findOne({ accessToken })`,
\* then next() or the 401.
authenticateUser(s, routes) ==
  /\ Free(s)
  /\ \E op \in routes, token \in TokenInputs :
       \E r \in RequestsOf(op) :
         LET req == [r EXCEPT !.token = token]
             hist == [NoHist EXCEPT !.tokenStored = TokenStored(token)] IN
         IF Authenticated(token)
         THEN Goto(s, "handler", op, req, hist, "none")
         ELSE Respond(s, op, req, hist,
                      Json(401, "false", Str("Please log in")))
  /\ UNCHANGED <<strictQuery, store>>

\* ------------------------------------------- DELETE /:userId/admin/delete
\* The users the filter of `User.findOneAndDelete({ userId })` matches.
DeleteUserMatches(userId) == FindByUnknownKey(users)

deleteUser(s) ==
  /\ At(s, "deleteUser", "handler")
  /\ LET req == slots[s].req IN
     IF DeleteUserMatches(req.userId) = {}
     THEN /\ Respond(s, "deleteUser", req, slots[s].hist, Json(400, "false", Str("User not found")))
          /\ UNCHANGED users
     ELSE \E user \in DeleteUserMatches(req.userId) :
            /\ users' = users \ {user}
            /\ Respond(s, "deleteUser", req, slots[s].hist,
                       Json(200, "true", Str("Account removed :(")))
  /\ UNCHANGED <<strictQuery, projects, nextUser, nextProject, nextGuest, issued>>

\* -------------------------------------------- PATCH /:userId/admin/change
\* The users the filter of `User.findOne({ userId })` matches.
ChangePasswordMatches(userId) == FindByUnknownKey(users)

\* `$set: { password: newPassword }` on one user document.
SetPassword_rotate(user, newPassword) ==
  [user EXCEPT !.password = newPassword, !.accessToken = randomBytesHex(0)]
SetPassword(user, newPassword) == [user EXCEPT !.password = newPassword]

\* `await User.findOne({ userId })`, then bcrypt.hashSync(password, salt).
changePassword(s) ==
  /\ At(s, "changePassword", "handler")
  /\ LET req == slots[s].req IN
     IF ChangePasswordMatches(req.userId) = {}
     THEN Respond(s, "changePassword", req, slots[s].hist,
                  Json(400, "false", Str("User not found")))
     ELSE IF req.password = Undefined
     THEN \* bcrypt.hashSync throws: data and salt arguments required
          Respond(s, "changePassword", req, slots[s].hist, Json(500, "false", Err("Error")))
     ELSE Goto(s, "update", "changePassword", req, slots[s].hist, "none")
  /\ UNCHANGED <<strictQuery, store>>

\* `await User.findByIdAndUpdate({ _id: userId }, { $set: { password } })`.
changePasswordUpdate(s) ==
  /\ At(s, "changePassword", "update")
  /\ LET req == slots[s].req IN
     IF ~IsObjectId(req.userId)
     THEN /\ Respond(s, "changePassword", req, slots[s].hist, Json(500, "false", Err("CastError")))
          /\ UNCHANGED users
     ELSE \E salt \in Salts :
            LET found == {u \in users : u.id = req.userId}
                updateUser == IF found = {} THEN Null ELSE CHOOSE u \in found : TRUE IN
            /\ users' = (users \ found) \cup
                        {SetPassword(u, hashSync(req.password, salt)) : u \in found}
            /\ Respond(s, "changePassword", req, slots[s].hist,
                       JsonData(200, "true", Str("Password changed"), updateUser))
  /\ UNCHANGED <<strictQuery, projects, nextUser, nextProject, nextGuest, issued>>

\* ---------------------------------------------------- GET /{collection}
getCatalog(s) ==
  /\ At(s, "getCatalog", "handler")
  /\ Respond(s, "getCatalog", slots[s].req, slots[s].hist,
             Json(200, "true", Docs(Catalog(slots[s].req.coll))))
  /\ UNCHANGED <<strictQuery, store>>

\* ------------------------------------------------------ GET /themes/:id
\* `await Theme.findById(req.params.id)`; the bodies of this route have no
\* `response` field: the theme is sent under the key `theme` (kept in `data`).
getThemeById(s) ==
  /\ At(s, "getThemeById", "handler")
  /\ LET req == slots[s].req
         found == {item \in Catalog("themes") : item.id = req.id} IN
     IF ~IsObjectId(req.id)
     THEN Respond(s, "getThemeById", req, slots[s].hist,
                  JsonError(400, "false", Null, "Invalid id"))
     ELSE IF found = {}
     THEN Respond(s, "getThemeById", req, slots[s].hist,
                  JsonError(404, "false", Null, "Id not found, try another"))
     ELSE Respond(s, "getThemeById", req, slots[s].hist,
                  JsonData(200, "true", Null, CHOOSE item \in found : TRUE))
  /\ UNCHANGED <<strictQuery, store>>

\* ------------------------------------------ GET /{collection}/type/:type
\* The items `find({ type: req.params.type })` returns: `type` is an array
\* path, which a scalar matches when the array holds it.
FindByType_all(coll, type) == Catalog(coll)
FindByType(coll, type) == {item \in Catalog(coll) : type \in item.type}

\* `typeOf` is an array, which is truthy also when it is empty: the
\* 'not found' branch is never taken.
getCatalogByType(s) ==
  /\ At(s, "getCatalogByType", "handler")
  /\ Respond(s, "getCatalogByType", slots[s].req, slots[s].hist,
             Json(200, "true", Docs(FindByType(slots[s].req.coll, slots[s].req.type))))
  /\ UNCHANGED <<strictQuery, store>>

\* --------------------------------- GET /:userId/project-board/projects
\* The projects `Project.find({ userProject: userId })` returns.
FindByOwner_all(userId) == projects
FindByOwner(userId) == {p \in projects : p.userProject = userId}

getProjects(s) ==
  /\ At(s, "getProjects", "handler")
  /\ LET req == slots[s].req IN
     IF ~IsObjectId(req.userId)
     THEN \* the find is awaited outside the try: the rejection is unhandled
          \* and no response is ever sent
          Goto(s, "hung", "getProjects", req, slots[s].hist, "CastError")
     ELSE Respond(s, "getProjects", req, slots[s].hist,
                  Json(200, "true", Docs(FindByOwner(req.userId))))
  /\ UNCHANGED <<strictQuery, store>>

\* ---------------------- GET /:userId/project-board/projects/:projectId
\* The projects `Project.find({ projectId, userProject: userId })` returns:
\* projectId is no path of the schema.
FindSingleProject(projectId, userId) ==
  IF strictQuery THEN FindByOwner(userId) ELSE {}

getSingleProject(s) ==
  /\ At(s, "getSingleProject", "handler")
  /\ LET req == slots[s].req IN
     IF ~IsObjectId(req.userId)
     THEN Respond(s, "getSingleProject", req, slots[s].hist, Json(400, "false", Err("CastError")))
     ELSE \* an array is truthy, also when it is empty
          Respond(s, "getSingleProject", req, slots[s].hist,
                  JsonData(200, "true", Str("Everything is ok"),
                           Docs(FindSingleProject(req.projectId, req.userId))))
  /\ UNCHANGED <<strictQuery, store>>

\* ----------------- POST /:userId/project-board/projects/addProject
\* The validators of ProjectSchema on save; the setters have run when the
\* document was constructed, so the name they see is trimmed.
ProjectValid(name, userId) ==
  /\ name # Undefined
  /\ Len(trim(name)) >= NameMinLength
  /\ Len(trim(name)) <= NameMaxLength
  /\ IsObjectId(userId)

addProject(s) ==
  /\ At(s, "addProject", "handler")
  /\ LET req == slots[s].req IN
     IF ~ProjectValid(req.name, req.userId)
     THEN /\ Respond(s, "addProject", req, slots[s].hist,
                     JsonError(400, "false", Str("Project failed to add"), "ValidationError"))
          /\ UNCHANGED <<projects, nextProject>>
     ELSE /\ nextProject <= MaxProjects
          /\ LET newProject ==
                   [id |-> ProjectIdOf(nextProject), name |-> trim(req.name),
                    userProject |-> req.userId,
                    due_date |-> IF req.due_date = Undefined THEN "YY-MM-DD"
                                 ELSE req.due_date,
                    guestList |-> << >>] IN
             /\ projects' = projects \cup {newProject}
             /\ Respond(s, "addProject", req, slots[s].hist, Json(200, "true", newProject))
          /\ nextProject' = nextProject + 1
  /\ UNCHANGED <<strictQuery, users, nextUser, nextGuest, issued>>

\* ------------------- PATCH /:userId/project-board/projects/:projectId
\* `$set: { name, due_date }`: keys whose value is undefined are dropped; the
\* update is cast with the setters of the schema and without its validators.
SetFields_novalue(p, name, due_date) ==
  [p EXCEPT !.name = trim(name), !.due_date = due_date]
SetFields(p, name, due_date) ==
  [p EXCEPT !.name = IF name = Undefined THEN @ ELSE trim(name),
            !.due_date = IF due_date = Undefined THEN @ ELSE due_date]

\* The route is registered without the middleware: the request arrives and
\* runs `await Project.findOne({ userId, projectId })`.
updateProject(s) ==
  /\ Free(s)
  /\ \E token \in TokenInputs : \E r \in RequestsOf("updateProject") :
       LET req == [r EXCEPT !.token = token]
           hist == [NoHist EXCEPT !.tokenStored = TokenStored(token)] IN
       IF FindByUnknownKey(projects) # {}
       THEN Goto(s, "update", "updateProject", req, hist, "none")
       ELSE Respond(s, "updateProject", req, hist,
                    Json(500, "absent", Str("Could not update")))
  /\ UNCHANGED <<strictQuery, store>>

\* The answer after the update: it is sent before `console.log(.., guestList)`
\* throws, so the catch block's 401 comes too late to be the answer.
UpdatedResponse_afterthrow(updatedProject) ==
  JsonError(401, "false", Str("Invalid credentials"), "ReferenceError")
UpdatedResponse(updatedProject) ==
  JsonData(200, "absent", Str("Updated"), updatedProject)

\* `await Project.findByIdAndUpdate({ _id: projectId }, { $set })`; the
\* answer carries the document as it was before the update.
updateProjectUpdate(s) ==
  /\ At(s, "updateProject", "update")
  /\ LET req == slots[s].req
         found == {p \in projects : p.id = req.projectId}
         updatedProject == IF found = {} THEN Null ELSE CHOOSE p \in found : TRUE IN
     IF ~IsObjectId(req.projectId)
     THEN /\ Respond(s, "updateProject", req, slots[s].hist,
                     JsonError(401, "false", Str("Invalid credentials"), "CastError"))
          /\ UNCHANGED projects
     ELSE /\ projects' = (projects \ found) \cup
                         {SetFields(p, req.name, req.due_date) : p \in found}
          /\ Respond(s, "updateProject", req, slots[s].hist,
                     UpdatedResponse(updatedProject))
  /\ UNCHANGED <<strictQuery, users, nextUser, nextProject, nextGuest, issued>>

\* ---------- POST /:userId/project-board/projects/:projectId/addGuest
\* `await User.find({ userId })` (unused), `await Project.findOne({ projectId })`.
addGuest(s) ==
  /\ At(s, "addGuest", "handler")
  /\ LET req == slots[s].req IN
     IF FindByUnknownKey(projects) # {}
     THEN Goto(s, "update", "addGuest", req,
               [slots[s].hist EXCEPT !.projectStored =
                  \E p \in projects : p.id = req.projectId], "none")
     ELSE Respond(s, "addGuest", req, slots[s].hist, Json(500, "absent", Str("Could not update")))
  /\ UNCHANGED <<strictQuery, store>>

\* `await Project.findByIdAndUpdate({ _id: projectId }, { $push: { guestList } })`;
\* the answer carries the document as it was before the update.
addGuestUpdate(s) ==
  /\ At(s, "addGuest", "update")
  /\ LET req == slots[s].req
         found == {p \in projects : p.id = req.projectId}
         addedGuest == IF found = {} THEN Null ELSE CHOOSE p \in found : TRUE
         guest == [id |-> GuestIdOf(nextGuest), guestName |-> req.guestName,
                   phone |-> req.phone] IN
     IF ~IsObjectId(req.projectId)
     THEN /\ Respond(s, "addGuest", req, slots[s].hist,
                     JsonError(401, "false", Str("Invalid credentials"), "CastError"))
          /\ UNCHANGED <<projects, nextGuest>>
     ELSE IF found = {}
     THEN /\ Respond(s, "addGuest", req, slots[s].hist,
                     JsonData(200, "absent", Str("Guest added"), addedGuest))
          /\ UNCHANGED <<projects, nextGuest>>
     ELSE /\ nextGuest <= MaxGuests
          /\ projects' = (projects \ found) \cup
                         {[p EXCEPT !.guestList = Append(@, guest)] : p \in found}
          /\ nextGuest' = nextGuest + 1
          /\ Respond(s, "addGuest", req, slots[s].hist,
                     JsonData(200, "absent", Str("Guest added"), addedGuest))
  /\ UNCHANGED <<strictQuery, users, nextUser, nextProject, issued>>

\* --- DELETE /:userId/project-board/projects/:projectId/delete/:guestId
\* `await User.find({ userId })` (an array, truthy),
\* `await Guest.findOneAndDelete({ projectId })` on the Guest collection.
deleteGuest(s) ==
  /\ At(s, "deleteGuest", "handler")
  /\ LET req == slots[s].req IN
     IF FindByUnknownKey(guests) = {}
     THEN Respond(s, "deleteGuest", req, slots[s].hist, Json(404, "false", Str("Guest not found")))
     ELSE Respond(s, "deleteGuest", req, slots[s].hist,
                  Json(200, "true", Str("Guest has been deleted")))
  /\ UNCHANGED <<strictQuery, store>>

\* ------------ DELETE /:userId/project-board/projects/delete/:projectId
\* `await User.find({ userId })` (an array, truthy),
\* `await Project.findOneAndDelete({ projectId })`.
deleteProject(s) ==
  /\ At(s, "deleteProject", "handler")
  /\ LET req == slots[s].req IN
     IF FindByUnknownKey(projects) = {}
     THEN /\ Respond(s, "deleteProject", req, slots[s].hist,
                     Json(404, "false", Str("Project not found")))
          /\ UNCHANGED projects
     ELSE \E projectToDelete \in FindByUnknownKey(projects) :
            /\ projects' = projects \ {projectToDelete}
            /\ Respond(s, "deleteProject", req, slots[s].hist,
                       Json(200, "true", Str("Project has been deleted")))
  /\ UNCHANGED <<strictQuery, users, nextUser, nextProject, nextGuest, issued>>

\* ------------------------------------------- GET /:userId/project-board
\* `await User.findOne({ userId })`; the `if (user)` has no else branch, so
\* a request whose lookup finds no user is never answered.
getProjectBoard(s) ==
  /\ At(s, "getProjectBoard", "handler")
  /\ LET req == slots[s].req IN
     IF FindByUnknownKey(users) # {}
     THEN Respond(s, "getProjectBoard", req, slots[s].hist,
                  Json(200, "true", Str("Welcome back")))
     ELSE Goto(s, "hung", "getProjectBoard", req, slots[s].hist, "none")
  /\ UNCHANGED <<strictQuery, store>>

\* ------------------------------------------------------- specifications
\* Every route, one request at a time.
Next ==
  \/ flush
  \/ \E s \in {1} :
       \/ signUp(s)
       \/ signUpCatch(s)
       \/ signIn(s)
       \/ authenticateUser(s, ProtectedRoutes)
       \/ deleteUser(s)
       \/ changePassword(s)
       \/ changePasswordUpdate(s)
       \/ getCatalog(s)
       \/ getCatalogByType(s)
       \/ getThemeById(s)
       \/ getProjects(s)
       \/ getSingleProject(s)
       \/ addProject(s)
       \/ updateProject(s)
       \/ updateProjectUpdate(s)
       \/ addGuest(s)
       \/ addGuestUpdate(s)
       \/ deleteGuest(s)
       \/ deleteProject(s)
       \/ getProjectBoard(s)

Spec == Init /\ [][Next]_vars

\* The account routes, with requests in flight in every slot.
NextAccounts ==
  \/ flush
  \/ \E s \in Slots :
       \/ signUp(s)
       \/ signUpCatch(s)
       \/ signIn(s)
       \/ authenticateUser(s, AccountRoutes)
       \/ deleteUser(s)
       \/ changePassword(s)
       \/ changePasswordUpdate(s)

SpecAccounts == Init /\ [][NextAccounts]_vars

\* The PATCH route with requests in flight in every slot, from the store as
\* it is after u1 signed up and created project p1.
InitUpdates ==
  /\ ClientInit
  /\ strictQuery \in BOOLEAN
  /\ users = {[id |-> UserIdOf(1), email |-> SignUpEmail("a@b.com"),
               password |-> hashSync("password1", 1),
               accessToken |-> randomBytesHex(1)]}
  /\ projects = {[id |-> ProjectIdOf(1), name |-> trim("Birthday Bash"),
                  userProject |-> UserIdOf(1), due_date |-> "YY-MM-DD",
                  guestList |-> << >>]}
  /\ nextUser = 2
  /\ nextProject = 2
  /\ nextGuest = 1
  /\ issued = {[userId |-> UserIdOf(1), accessToken |-> randomBytesHex(1)]}
  /\ slots = [s \in Slots |-> IdleSlot]
  /\ sent = NoSent

NextUpdates ==
  \/ flush
  \/ \E s \in Slots :
       \/ updateProject(s)
       \/ updateProjectUpdate(s)

SpecUpdates == InitUpdates /\ [][NextUpdates]_vars

\* addGuest and the project delete with requests in flight in every slot,
\* from the store as it is after u1 signed up and created project p1.
GuestRoutes == {"addGuest", "deleteProject"}

NextGuests ==
  \/ flush
  \/ \E s \in Slots :
       \/ authenticateUser(s, GuestRoutes)
       \/ addGuest(s)
       \/ addGuestUpdate(s)
       \/ deleteProject(s)

SpecGuests == InitUpdates /\ [][NextGuests]_vars

\* ==================================================== SingleProjectPage
\* The URL builders the page imports from assets/urls/urls.
ImportedUrls == {"ONEPROJECT_URL", "DRINK_COMPLETE_URL", "DECOR_COMPLETE_URL",
                 "THEME_COMPLETE_URL", "ACTIVITY_COMPLETE_URL", "DRINK_DELETE_URL",
                 "DECOR_DELETE_URL", "THEME_DELETE_URL", "ACTIVITY_DELETE_URL",
                 "ONEPROJECT_CHANGE_URL"}

\* The URL builder each handler of the page calls.
UrlOf(handler) ==
  CASE handler = "getSingleProject" -> "ONEPROJECT_URL"
    [] handler = "completedDrinks" -> "DRINK_COMPLETE_URL"
    [] handler = "completedTheme" -> "THEME_COMPLETE_URL"
    [] handler = "completedFood" -> "FOOD_COMPLETE_URL"
    [] handler = "completedActivities" -> "ACTIVITY_COMPLETE_URL"
    [] handler = "completedDecorations" -> "DECOR_COMPLETE_URL"
    [] handler = "deleteDrinks" -> "DRINK_DELETE_URL"
    [] handler = "deleteFood" -> "FOOD_DELETE_URL"
    [] handler = "deleteDecoration" -> "DECOR_DELETE_URL"
    [] handler = "deleteActivity" -> "ACTIVITY_DELETE_URL"
    [] handler = "deleteTheme" -> "THEME_DELETE_URL"
    [] OTHER -> "ONEPROJECT_CHANGE_URL"   \* singleProjectChange

\* The handlers behind the buttons of a rendered project; changeName and
\* changeDueDate both call singleProjectChange.
ButtonHandlers == {"completedDrinks", "completedTheme", "completedFood",
                   "completedActivities", "completedDecorations", "deleteDrinks",
                   "deleteFood", "deleteDecoration", "deleteActivity",
                   "deleteTheme", "singleProjectChange"}
PageHandlers == ButtonHandlers \cup {"getSingleProject"}

\* Object.is on the values of singleProject.
ObjectIs(a, b) == a = b

\* `setLoading(true)`, then `fetch(X_URL(..), options)`: an identifier that
\* is not imported throws a ReferenceError before any fetch is started.
StartFetch(handler) ==
  /\ nextReq <= MaxRequests
  /\ loading' = TRUE
  /\ pending' = IF UrlOf(handler) \in ImportedUrls
                THEN pending \cup {[id |-> nextReq, handler |-> handler]}
                ELSE pending
  /\ nextReq' = nextReq + 1

\* The navigator shows the page: first render with useState([]).
mountPage ==
  /\ mounted = "no"
  /\ mounted' = "yes"
  /\ singleProject' = InitialProject
  /\ effectDue' = TRUE
  /\ UNCHANGED <<server, loading, credentials, pending, nextReq>>

\* useEffect(() => { getSingleProject() }, [singleProject]): runs after the
\* first render and after every render in which singleProject is another
\* object than in the render before.
useEffect ==
  /\ mounted = "yes"
  /\ effectDue
  /\ effectDue' = FALSE
  /\ StartFetch("getSingleProject")
  /\ UNCHANGED <<server, credentials, mounted, singleProject>>

\* A button of the rendered project is pressed.
press(handler) ==
  /\ mounted = "yes"
  /\ singleProject # InitialProject
  /\ StartFetch(handler)
  /\ UNCHANGED <<server, credentials, mounted, singleProject, effectDue>>

\* The fetch of getSingleProject settles: `.then(res => res.json())`,
\* `.then(data => setSingleProject(data.data))`, `.catch`, `.finally`.  A body
\* with `data` gives a new array, a body without it gives undefined, and
\* rendering undefined throws at `singleProject.map`.
settleGetSingleProject(r) ==
  /\ r \in pending
  /\ r.handler = "getSingleProject"
  /\ \E outcome \in {"array", "undefined", "rejected"} :
       LET value == CASE outcome = "array" -> [kind |-> "array", ref |-> r.id]
                      [] outcome = "undefined" -> [kind |-> "undefined", ref |-> 0]
                      [] OTHER -> singleProject IN
       IF mounted # "yes" \/ ObjectIs(value, singleProject)
       THEN UNCHANGED <<mounted, singleProject, effectDue>>
       ELSE /\ singleProject' = value
            /\ mounted' = IF value.kind = "array" THEN "yes" ELSE "crashed"
            /\ effectDue' = (value.kind = "array")
  /\ loading' = FALSE
  /\ pending' = pending \ {r}
  /\ UNCHANGED <<server, credentials, nextReq>>

\* The fetch of a button handler settles: `.then(data => console.log(data))`,
\* `.catch`, `.finally(() => dispatch(ui.actions.setLoading(false)))`.
settle(r) ==
  /\ r \in pending
  /\ r.handler \in ButtonHandlers
  /\ loading' = FALSE
  /\ pending' = pending \ {r}
  /\ UNCHANGED <<server, credentials, mounted, singleProject, effectDue, nextReq>>

PageRequests == {[id |-> i, handler |-> h] : i \in 1..MaxRequests, h \in PageHandlers}

\* ============================================= SignUp screen and logout
\* What the user has typed into the three fields of the form.
FormValues == [email : {"", "A@b.com"}, password : {"", "password1"},
               confirmPassword : {"", "password1", "password2"}]

\* Formik onSubmit, then signUpSubmit(values): is the POST /signUp sent.
FormIsSent(values) ==
  /\ ~(values.email = "" \/ values.password = "" \/ values.confirmPassword = "")
  /\ values.password = values.confirmPassword

\* The form is submitted; the request carries the e-mail and the password.
submit ==
  /\ nextReq <= MaxRequests
  /\ \E values \in FormValues :
       pending' = IF FormIsSent(values)
                  THEN pending \cup {[id |-> nextReq, handler |-> "signUpSubmit",
                                      values |-> values]}
                  ELSE pending
  /\ nextReq' = nextReq + 1
  /\ UNCHANGED <<server, loading, credentials, mounted, singleProject, effectDue>>

\* `.then((data) => { if (data.success) {...} else {...} })`: a success body
\* sets the three fields from data.response, any other body sets them to
\* null; there is no .catch, so a rejected fetch changes nothing.
settleSignUp(r) ==
  /\ r \in pending
  /\ r.handler = "signUpSubmit"
  /\ \E outcome \in {"success", "failure", "rejected"} :
       credentials' =
         CASE outcome = "success" ->
                [userId |-> UserIdOf(r.id), accessToken |-> randomBytesHex(r.id),
                 email |-> SignUpEmail(r.values.email)]
           [] outcome = "failure" ->
                [userId |-> JsNull, accessToken |-> JsNull, email |-> JsNull]
           [] OTHER -> credentials
  /\ pending' = pending \ {r}
  /\ UNCHANGED <<server, loading, mounted, singleProject, effectDue, nextReq>>

\* logout of the Decorations screen: setEmail(null), setAccessToken(null).
\* The screen is shown to a signed-in user only.
logout ==
  /\ credentials.accessToken # JsNull
  /\ credentials' = [credentials EXCEPT !.email = JsNull, !.accessToken = JsNull]
  /\ UNCHANGED <<server, loading, mounted, singleProject, effectDue, pending, nextReq>>

SignUpRequests == {[id |-> i, handler |-> "signUpSubmit", values |-> v] :
                     i \in 1..MaxRequests, v \in FormValues}

\* The client, with the server's answers as its inputs.
NextClient ==
  \/ mountPage
  \/ useEffect
  \/ \E handler \in ButtonHandlers : press(handler)
  \/ \E r \in PageRequests : settleGetSingleProject(r)
  \/ \E r \in PageRequests : settle(r)
  \/ submit
  \/ \E r \in SignUpRequests : settleSignUp(r)
  \/ logout

SpecClient == Init /\ [][NextClient]_vars

\* ================================================================ claims
Answered(op) == sent.op = op /\ sent.resp.status # 401
StoredUserIds == {u.id : u \in users}

\* C1: a fetch of a stored project P under the path of a stored user U who
\* does not own P answers not-found, and its response carries no project of
\* another owner and no project other than P.
C1_FetchOfForeignProjectIsNotFound ==
  (/\ Answered("getSingleProject")
   /\ sent.req.userId \in StoredUserIds
   /\ \E p \in projects : p.id = sent.req.projectId /\ p.userProject # sent.req.userId)
  => /\ sent.resp.status = 404
     /\ sent.resp.success = "false"
     /\ sent.resp.data = Null

\* C2: a request to any route but sign-up and sign-in whose Authorization
\* header is missing or is no stored user's accessToken never enters the
\* handler body and is answered 401.
GuardedRoutes == ProtectedRoutes \cup {"updateProject"}
C2_UnauthenticatedIsRejected ==
  /\ \A s \in Slots :
       (slots[s].op \in GuardedRoutes /\ slots[s].pc \in {"handler", "update", "hung"})
       => slots[s].hist.tokenStored
  /\ (sent.op \in GuardedRoutes /\ ~sent.hist.tokenStored) => sent.resp.status = 401

\* C3: sign-in succeeds, returning the account's userId, email and
\* accessToken, exactly when an account was signed up with that e-mail (in
\* whatever letter case) and the password matches its stored hash.
C3_SignInIffCredentials ==
  sent.op = "signIn" =>
    LET matching == {u \in users : /\ u.email = toLowerCase(sent.req.email)
                                   /\ sent.req.password # Undefined
                                   /\ compareSync(sent.req.password, u.password)} IN
    IF matching # {}
    THEN \E u \in matching :
           sent.resp = Json(201, "true", [userId |-> u.id, email |-> u.email,
                                          accessToken |-> u.accessToken])
    ELSE sent.resp.success = "false" /\ sent.resp.status # 201

\* C4: a failed sign-in is answered the same whether or not the e-mail is
\* registered: its response is the one the same request gets when no account
\* has that e-mail.
C4_SignInFailureHidesExistence ==
  (sent.op = "signIn" /\ sent.resp.success # "true")
  => sent.resp = SignInResponse(Null, sent.req.password)

\* C5: every stored account has a non-empty accessToken and no two stored
\* accounts have the same one.
C5_TokensDistinct ==
  \A u \in users :
    /\ u.accessToken # Undefined
    /\ Len(u.accessToken) > 0
    /\ \A v \in users : u.id # v.id => u.accessToken # v.accessToken
C5_Witness == Cardinality(users) = 2 /\ Cardinality(issued) = 2

\* C6: an account keeps the token issued at sign-up: a successful sign-in
\* returns it, no operation changes it, and it authenticates exactly as long
\* as the account is stored.
C6_TokenNeverRotated ==
  /\ \A i \in issued :
       /\ \A u \in users : u.id = i.userId => u.accessToken = i.accessToken
       /\ Authenticated(i.accessToken) <=> i.userId \in StoredUserIds
  /\ (sent.op = "signIn" /\ sent.resp.success = "true")
     => [userId |-> sent.resp.response.userId,
         accessToken |-> sent.resp.response.accessToken] \in issued
\* A sign-in with a changed password, after another account was deleted.
C6_Witness ==
  /\ sent.op = "signIn"
  /\ sent.resp.success = "true"
  /\ \E u \in users : /\ u.id = sent.resp.response.userId
                      /\ PlainOf(u.password) = "abc"
  /\ \E i \in issued : i.userId \notin StoredUserIds /\ ~Authenticated(i.accessToken)

EmailTakenNow(email) == \E u \in users : u.email = toLowerCase(email)
UserAlreadyExists == Str("User already exists")
EmailsUnique ==
  \A u \in users : \A v \in users :
    u.id # v.id => toLowerCase(u.email) # toLowerCase(v.email)

\* C7 as written: e-mails are unique; a sign-up whose e-mail is registered
\* creates nothing and is answered 'User already exists', and only then.
C7_DuplicateAlwaysAnsweredExists ==
  /\ EmailsUnique
  /\ (sent.op = "signUp" /\ sent.hist.emailTaken)
     => sent.resp.status # 201 /\ sent.resp.response = UserAlreadyExists
  /\ (sent.op = "signUp" /\ sent.resp.response = UserAlreadyExists)
     => sent.hist.emailTaken \/ EmailTakenNow(sent.req.email)

\* C7 amended: e-mails are unique; a sign-up with a password of at least 8
\* characters whose e-mail is registered creates nothing and is answered
\* 'User already exists', and that answer is given only when the e-mail is
\* registered.
C7_DuplicateWithValidPassword ==
  [][/\ EmailsUnique'
     /\ (sent'.op = "signUp" /\ sent'.hist.emailTaken)
        => /\ sent'.resp.status # 201
           /\ users' = users
           /\ (sent'.req.password # Undefined
               /\ Len(sent'.req.password) >= MinPasswordLength)
              => sent'.resp.response = UserAlreadyExists
     /\ (sent'.op = "signUp" /\ sent'.resp.response = UserAlreadyExists)
        => \/ sent'.hist.emailTaken
           \/ \E u \in users' : u.email = toLowerCase(sent'.req.email)]_vars
\* The duplicate is caught by the unique index alone: the e-mail was sent in
\* upper case, so the catch block's own lookup does not find it.
C7_Witness ==
  /\ sent.op = "signUp"
  /\ sent.hist.emailTaken
  /\ sent.req.email = "A@b.com"
  /\ sent.resp.response = UserAlreadyExists
  /\ sent.error = "E11000"

\* C8: the password of every stored account has at least 8 characters.
C8_PasswordsAtLeast8 ==
  \A u \in users : Len(PlainOf(u.password)) >= MinPasswordLength

\* C9: an account delete removes exactly the account whose id is the path
\* userId, or answers 'User not found' and removes nothing when there is
\* none; no other step removes an account.
C9_DeleteRemovesThePathUser ==
  [][/\ sent'.op # "deleteUser" => StoredUserIds \subseteq {u.id : u \in users'}
     /\ (sent'.op = "deleteUser" /\ sent'.resp.status # 401)
        => IF sent'.req.userId \in StoredUserIds
           THEN /\ users' = {u \in users : u.id # sent'.req.userId}
                /\ sent'.resp.success = "true"
           ELSE /\ users' = users
                /\ sent'.resp.response = Str("User not found")]_vars

\* C10: the project list of a path userId is answered with success and
\* exactly the stored projects whose owner is that user, the empty list when
\* there are none.
C10_ListIsExactlyTheOwned ==
  Answered("getProjects")
  => sent.resp = Json(200, "true",
                      Docs({p \in projects : p.userProject = sent.req.userId}))
\* The list holds a project while another owner's project is stored.
C10_Witness ==
  /\ Answered("getProjects")
  /\ sent.resp.response # Docs({})
  /\ \E p \in projects : p.userProject # sent.req.userId

\* C11: the name of every stored project is present, trimmed and 5 to 30
\* characters long.
C11_StoredNamesAreValid ==
  \A p \in projects :
    /\ p.name # Undefined
    /\ trim(p.name) = p.name
    /\ Len(p.name) >= NameMinLength
    /\ Len(p.name) <= NameMaxLength

\* C12: an update overwrites only the fields its body holds: with no name
\* the name is kept, with no due_date the due date is kept, a field that is
\* present is written (trimmed), and the guest list, the owner, every other
\* project and the accounts are unchanged.
C12_UpdateWritesOnlyPresentFields ==
  [][sent'.op = "updateProject" =>
       /\ users' = users
       /\ {q.id : q \in projects'} = {p.id : p \in projects}
       /\ \A p \in projects : \E q \in projects' :
            /\ q.id = p.id
            /\ q.userProject = p.userProject
            /\ q.guestList = p.guestList
            /\ p.id # sent'.req.projectId => q = p
            /\ sent'.req.name = Undefined => q.name = p.name
            /\ sent'.req.due_date = Undefined => q.due_date = p.due_date
            /\ (p.id = sent'.req.projectId /\ sent'.resp.status = 200) =>
                 /\ sent'.req.name # Undefined => q.name = trim(sent'.req.name)
                 /\ sent'.req.due_date # Undefined => q.due_date = sent'.req.due_date]_vars
\* A name-only update of a project with a guest and a due date of its own,
\* while another project is stored.
C12_Witness ==
  /\ sent.op = "updateProject"
  /\ sent.resp.status = 200
  /\ sent.req.name = "abc"
  /\ sent.req.due_date = Undefined
  /\ \E p \in projects : /\ p.id = sent.req.projectId
                         /\ p.name = "abc"
                         /\ p.due_date = "2024-05-01"
                         /\ p.guestList # << >>
  /\ \E p \in projects : p.id # sent.req.projectId

MutatingProjectRoutes == {"updateProject", "deleteProject", "addGuest", "deleteGuest"}

\* C13: a project update, project delete, guest add or guest remove that
\* addresses a stored project under the path userId of a stored user who is
\* not its owner leaves the project as it was and is answered with a failure.
C13_ForeignMutationFails ==
  [][\A p \in projects :
       (/\ sent'.op \in MutatingProjectRoutes
        /\ sent'.req.projectId = p.id
        /\ sent'.req.userId \in StoredUserIds
        /\ sent'.req.userId # p.userProject)
       => /\ p \in projects'
          /\ sent'.resp.status >= 400
          /\ sent'.resp.success # "true"]_vars

\* C14: a project delete that reports success has removed exactly the
\* project with the path projectId, and a delete whose projectId is no stored
\* project's id reports 'Project not found' and removes nothing.
C14_DeleteRemovesThePathProject ==
  [][(sent'.op = "deleteProject" /\ sent'.resp.status # 401) =>
       LET P == sent'.req.projectId
           stored == \E p \in projects : p.id = P IN
       /\ sent'.resp.success = "true"
          => stored /\ projects' = {p \in projects : p.id # P}
       /\ ~stored
          => /\ sent'.resp.response = Str("Project not found")
             /\ projects' = projects]_vars

\* C15: an addGuest answered 200 for a stored project P has appended one
\* guest with the given guestName and phone at the end of P's guest list,
\* has changed no other project, and answers with P as it is after the
\* append.
C15_AddGuestAppendsAndReturnsUpdated ==
  [][(/\ sent'.op = "addGuest"
      /\ sent'.resp.status = 200
      /\ \E p \in projects : p.id = sent'.req.projectId) =>
       \E p \in projects : \E q \in projects' :
         /\ p.id = sent'.req.projectId
         /\ q.id = p.id
         /\ projects' \ {q} = projects \ {p}
         /\ [q EXCEPT !.guestList = p.guestList] = p
         /\ Len(q.guestList) = Len(p.guestList) + 1
         /\ SubSeq(q.guestList, 1, Len(p.guestList)) = p.guestList
         /\ q.guestList[Len(q.guestList)].guestName = sent'.req.guestName
         /\ q.guestList[Len(q.guestList)].phone = sent'.req.phone
         /\ sent'.resp.data = q]_vars

\* The guest list without the guest whose id is guestId.
WithoutGuest(guestList, guestId) == SelectSeq(guestList, LAMBDA g : g.id # guestId)

\* C16: removing a guest of project P by the id it received at addGuest
\* succeeds and leaves P's guest list as it was without that guest, so an
\* append followed by the removal restores the list.
C16_RemoveUndoesAdd ==
  [][(sent'.op = "deleteGuest" /\ sent'.resp.status # 401) =>
       \A p \in projects :
         (/\ p.id = sent'.req.projectId
          /\ \E i \in 1..Len(p.guestList) : p.guestList[i].id = sent'.req.guestId)
         => /\ sent'.resp.success = "true"
            /\ [p EXCEPT !.guestList = WithoutGuest(@, sent'.req.guestId)] \in projects']_vars

GuestNotFound == Str("Guest not found")

\* C17: a remove-guest whose projectId is no stored project's id is answered
\* with a failure that is not the guest-not-found answer, and one whose
\* project is stored but holds no guest with the guestId is answered
\* 'Guest not found'.
C17_RemoveGuestTellsItsFailuresApart ==
  (sent.op = "deleteGuest" /\ sent.resp.status # 401) =>
    LET addressed == {p \in projects : p.id = sent.req.projectId} IN
    IF addressed = {}
    THEN sent.resp.success = "false" /\ sent.resp.response # GuestNotFound
    ELSE (\A p \in addressed : \A i \in 1..Len(p.guestList) :
            p.guestList[i].id # sent.req.guestId)
         => sent.resp.success = "false" /\ sent.resp.response = GuestNotFound

\* C18: a type filter on any catalog collection is answered with success and
\* exactly the items of the collection that carry the tag, the empty list
\* when none does.
C18_TypeFilterIsExact ==
  Answered("getCatalogByType")
  => sent.resp = Json(200, "true",
                      Docs({item \in Catalog(sent.req.coll) : sent.req.type \in item.type}))
\* A tag that items of other collections carry and no item of this one.
C18_Witness ==
  /\ Answered("getCatalogByType")
  /\ sent.req.coll = "activities"
  /\ sent.req.type = "kids"
  /\ sent.resp.success = "true"
  /\ sent.resp.response = Docs({})

\* C19: the body of every response has a boolean `success` field and a
\* `response` field.
C19_EveryBodyIsAnEnvelope ==
  sent # NoSent =>
    /\ sent.resp.success \in {"true", "false"}
    /\ sent.resp.response # Null

\* The project p after the body of req was written over it, field by field.
WrittenBy(p, req) ==
  [p EXCEPT !.name = IF req.name = Undefined THEN p.name ELSE trim(req.name),
            !.due_date = IF req.due_date = Undefined THEN p.due_date
                         ELSE req.due_date]
\* The status an update request gets when it is handled alone on the store
\* as it is now.
AloneStatus(req) ==
  IF FindByUnknownKey(projects) = {} THEN 500
  ELSE IF ~IsObjectId(req.projectId) THEN 401
  ELSE 200

\* C20: with update requests in flight at the same time, every answer and
\* every write is the one the answered request produces when it runs alone on
\* the store as it is at its write: the addressed project gets the fields of
\* the body over its current values (so each field ends with the value of the
\* update applied last to it), nothing else changes, and the status is the
\* one of the sequential run.
C20_ConcurrentUpdatesSerialize ==
  [][sent'.op = "updateProject" =>
       /\ sent'.resp.status = AloneStatus(sent'.req)
       /\ projects' = IF AloneStatus(sent'.req) = 200
                      THEN {IF p.id = sent'.req.projectId
                            THEN WrittenBy(p, sent'.req) ELSE p : p \in projects}
                      ELSE projects
       /\ \A p \in projects :
            (p.id = sent'.req.projectId /\ sent'.resp.status = 200)
            => sent'.resp.data = p]_vars
\* An update is answered while another update of the same project, writing
\* another value to the same field, is between its lookup and its write; the
\* answered one found the project already changed by an earlier update.
C20_Witness ==
  /\ sent.op = "updateProject"
  /\ sent.resp.status = 200
  /\ sent.req.name = "abc"
  /\ sent.resp.data # Null
  /\ sent.resp.data.due_date = "2024-05-01"
  /\ \E s \in Slots :
       /\ s # sent.slot
       /\ slots[s].op = "updateProject"
       /\ slots[s].pc = "update"
       /\ slots[s].req.projectId = sent.req.projectId
       /\ slots[s].req.name = "Birthday Bash"
  /\ \E p \in projects : p.id = sent.req.projectId /\ p.name = "abc"

\* C21: the owner of every stored project is a stored account.
C21_OwnerIsAStoredAccount ==
  \A p \in projects : p.userProject \in StoredUserIds

\* An answer with an error status or with success:false.
NonSuccess(resp) == resp.status >= 400 \/ resp.success = "false"

\* C22: a step that answers a request with a non-success outcome changes no
\* stored user and no stored project (with its guest list); every route
\* writes in the step that sends its answer, so nothing was applied before.
C22_FailureChangesNothing ==
  [][(sent'.op # "none" /\ NonSuccess(sent'.resp))
     => users' = users /\ projects' = projects]_vars
\* An addGuest that failed in its update, after its existence check passed.
C22_Witness ==
  /\ sent.op = "addGuest"
  /\ sent.resp.response = Str("Invalid credentials")
  /\ NonSuccess(sent.resp)
  /\ projects # {}

\* C23: a request that carries the token of a stored user A and the path
\* userId of another stored user B is rejected, and B's account (with its
\* password) and B's projects are stored afterwards as they were.
C23_TokenOfAnotherUserIsRejected ==
  [][\A a \in users : \A b \in users :
       (/\ a.id # b.id
        /\ sent'.op \in GuardedRoutes
        /\ sent'.req.token = a.accessToken
        /\ sent'.req.userId = b.id)
       => /\ NonSuccess(sent'.resp)
          /\ b \in users'
          /\ {p \in projects : p.userProject = b.id} \subseteq projects']_vars

\* C24: no request that has entered its route handler is left without an
\* answer.
C24_NoRequestIsLeftHanging ==
  \A s \in Slots : slots[s].pc # "hung"

\* C25: an addGuest whose project was stored at its existence check and
\* that answers 'Guest added' has appended its guest to that project, which
\* is stored at the time of the write.
C25_GuestAddedMeansAppended ==
  [][(/\ sent'.op = "addGuest"
      /\ sent'.resp.response = Str("Guest added")
      /\ sent'.hist.projectStored) =>
       \E p \in projects : \E q \in projects' :
         /\ p.id = sent'.req.projectId
         /\ q.id = p.id
         /\ Len(q.guestList) = Len(p.guestList) + 1
         /\ q.guestList[Len(q.guestList)].guestName = sent'.req.guestName]_vars

\* The requests of the page that are in flight.
PagePending == {r \in pending : r.handler \in PageHandlers}

\* C26: ui.loading is true exactly while a request of the page is in flight:
\* when it is true some request is in flight whose completion will set it
\* back, and it is false only when none is in flight.
C26_LoadingIffInFlight ==
  loading <=> PagePending # {}

\* C27: once a response has been stored in singleProject the page starts no
\* new GET of the single project.
C27_NoFetchAfterResponseStored ==
  [][singleProject # InitialProject
     => \A r \in pending' \ pending : r.handler # "getSingleProject"]_vars

\* C28: the client's credentials are all set or all null.
C28_CredentialsAllOrNothing ==
  /\ credentials.accessToken # JsNull <=> credentials.userId # JsNull
  /\ credentials.accessToken # JsNull <=> credentials.email # JsNull
====
